---- MODULE Spec2Model ----
(***************************************************************************)
(* The HTTP API layer of the Safe transaction service                      *)
(* (safe_transaction_service/history/views.py and urls.py): one action per *)
(* routed handler, acting on the relational store the views query.         *)
(***************************************************************************)
EXTENDS Integers, Sequences, FiniteSets, TLC

VARIABLES
    multisig,       \* MultisigTransaction table, in insertion (id) order
    confirmations,  \* MultisigConfirmation table
    moduleTxs,      \* ModuleTransaction table
    internalTxs,    \* InternalTx table (traces)
    tokenTransfers, \* token transfer events, read by incoming_tokens
    safeContracts,  \* SafeContract table: registered safe addresses
    safeStatus,     \* SafeStatus table: <<safe, owner>> pairs
    chain,          \* what the balance service reads: balance per address
    last,           \* the last request served, with its response
    prevList        \* the successful list response served before `last`

store == <<multisig, confirmations, moduleTxs, internalTxs, tokenTransfers,
           safeContracts, safeStatus, chain>>
vars == <<multisig, confirmations, moduleTxs, internalTxs, tokenTransfers,
          safeContracts, safeStatus, chain, last, prevList>>

-----------------------------------------------------------------------------
\* Bounds of the model.
MaxTxs == 2       \* rows the MultisigTransaction table may hold

\* HTTP status codes (rest_framework.status).
HTTP_200_OK == 200
HTTP_202_ACCEPTED == 202
HTTP_404_NOT_FOUND == 404
HTTP_422_UNPROCESSABLE_ENTITY == 422

Nonces == {0, 1}
Hexes == {"a1", "b2"}
\* An address as it appears in a URL: the 20 bytes and the casing of its hex
\* digits.  One address is also sent in lower case.
Addresses == (Hexes \X {"eip55"}) \cup {<<"a1", "lower">>}

None == <<>>

\* Web3.toChecksumAddress: the casing EIP-55 derives from the hash of the digits.
toChecksumAddress(a) == <<a[1], "eip55">>
\* Web3.isChecksumAddress: the address is spelled exactly as EIP-55 spells it.
isChecksumAddress(a) == a = toChecksumAddress(a)

ChecksumAddresses == {a \in Addresses : isChecksumAddress(a)}

-----------------------------------------------------------------------------
\* The ORM: a queryset is the rows a query selects, in table order, with the
\* ordering it will be evaluated under (a later order_by replaces an earlier one).

Range(s) == {s[i] : i \in DOMAIN s}

QuerySet(rows) == [rows |-> rows, ordering |-> <<>>]

\* An ordering term is a field name, with a leading "-" for descending.
TermField(t) == IF t \in {"nonce", "-nonce"} THEN "nonce"
                ELSE IF t \in {"created", "-created"} THEN "created"
                ELSE t
TermDesc(t) == t \in {"-nonce", "-created"}

\* r1 sorts strictly before r2 under the ordering terms ord.
RECURSIVE Precedes(_, _, _)
Precedes(r1, r2, ord) ==
    IF ord = <<>> THEN FALSE
    ELSE LET f == TermField(Head(ord))
         IN  IF r1[f] = r2[f] THEN Precedes(r1, r2, Tail(ord))
             ELSE IF TermDesc(Head(ord)) THEN r1[f] > r2[f] ELSE r1[f] < r2[f]

\* ORDER BY is stable over the table order: r goes after every row it does not precede.
RECURSIVE InsertSorted(_, _, _)
InsertSorted(sorted, r, ord) ==
    IF sorted = <<>> THEN <<r>>
    ELSE IF Precedes(r, Head(sorted), ord) THEN <<r>> \o sorted
    ELSE <<Head(sorted)>> \o InsertSorted(Tail(sorted), r, ord)

RECURSIVE SortRows(_, _)
SortRows(rows, ord) ==
    IF rows = <<>> THEN <<>>
    ELSE InsertSorted(SortRows(SubSeq(rows, 1, Len(rows) - 1), ord), rows[Len(rows)], ord)

\* QuerySet.order_by: replaces the queryset's ordering.
order_by(qs, ord) == [qs EXCEPT !.ordering = ord]
\* Evaluating a queryset: its rows under its ordering.
Evaluate(qs) == SortRows(qs.rows, qs.ordering)
\* QuerySet.count.
Count(qs) == Len(qs.rows)
\* Mutant of DistinctCount: the distinct() is dropped, every row is counted.
DistinctCount_rows(qs, f) == Count(qs)
\* QuerySet.distinct(field).count().
DistinctCount(qs, f) == Cardinality({r[f] : r \in Range(qs.rows)})

-----------------------------------------------------------------------------
\* The framework pieces the list views are assembled from.

Min(a, b) == IF a < b THEN a ELSE b

\* rest_framework.response.Response(status=..., data=...): no header set yet.
Response(status, data) == [status |-> status, data |-> data, headers |-> <<>>]

\* HttpResponse.setdefault: sets the header unless the response already has it.
setdefault(response, header, value) ==
    IF header \in DOMAIN response.headers THEN response
    ELSE [response EXCEPT !.headers = @ @@ (header :> value)]

\* json.dumps: the results list written out as text.
json_dumps(results) == ToString(results)
\* hashlib.md5(...).hexdigest(), taken as injective: the digest names its input.
md5_hexdigest(text) == "md5(" \o text \o ")"
\* Mutant of WeakETag: the digest is taken over the length of the results.
WeakETag_length(results) == "W/" \o md5_hexdigest(ToString(Len(results)))
\* 'W/' + hashlib.md5(json.dumps(response.data['results']).encode()).hexdigest()
WeakETag(results) == "W/" \o md5_hexdigest(json_dumps(results))

\* OrderingFilter.remove_invalid_fields: the terms naming a field of ordering_fields.
remove_invalid_fields(terms, ordering_fields) ==
    SelectSeq(terms, LAMBDA t : TermField(t) \in ordering_fields)

\* OrderingFilter.filter_queryset: a valid `ordering` parameter replaces the
\* queryset's ordering; the views set no default `ordering` of their own.
OrderingFilter(qs, q, ordering_fields) ==
    LET ordering == remove_invalid_fields(q.ordering, ordering_fields)
    IN  IF ordering # <<>> THEN order_by(qs, ordering) ELSE qs

\* MultisigTransactionFilter through DjangoFilterBackend: the `nonce` parameter
\* keeps the rows of that nonce.
MultisigTransactionFilter(qs, q) ==
    IF q.nonce = None THEN qs
    ELSE [qs EXCEPT !.rows = SelectSeq(@, LAMBDA r : r.nonce = q.nonce[1])]

\* IncomingTransactionFilter through DjangoFilterBackend: the `token_address`
\* parameter keeps the transfers of that token.
IncomingTransactionFilter(qs, q) ==
    IF q.token_address = None THEN qs
    ELSE [qs EXCEPT !.rows = SelectSeq(@, LAMBDA r : r.token_address = q.token_address)]

\* DefaultPagination.paginate_queryset (limit/offset): the page of the evaluated queryset.
paginate_queryset(qs, q) ==
    IF Count(qs) = 0 \/ q.offset > Count(qs) THEN <<>>
    ELSE SubSeq(Evaluate(qs), q.offset + 1, Min(q.offset + q.limit, Count(qs)))

\* DefaultPagination.get_paginated_response: count of the whole queryset, links, page.
get_paginated_response(qs, q, results) ==
    Response(HTTP_200_OK,
             [count |-> Count(qs),
              next |-> IF q.offset + q.limit < Count(qs) THEN <<q.offset + q.limit>> ELSE None,
              previous |-> IF q.offset > 0 THEN <<IF q.offset > q.limit THEN q.offset - q.limit ELSE 0>>
                           ELSE None,
              results |-> results])

\* Store queries a paginated list issues: the count, and the page unless it is empty.
ListQueries(qs, q) == IF Count(qs) = 0 \/ q.offset > Count(qs) THEN 1 ELSE 2

\* The record of a served request.
Served(method, view, address, query, response, queries, balance_calls, saves) ==
    [method |-> method, view |-> view, address |-> address, query |-> query,
     response |-> response, queries |-> queries, balance_calls |-> balance_calls,
     saves |-> saves]

-----------------------------------------------------------------------------
\* SafeMultisigTransactionListView

\* MultisigTransaction.objects.filter(safe=address)
MultisigOfSafe(address) == QuerySet(SelectSeq(multisig, LAMBDA r : r.safe = address))

\* SafeMultisigTransactionResponseSerializer: a row with its prefetched confirmations.
SafeMultisigTransactionResponseSerializer(r) ==
    [safe |-> r.safe, nonce |-> r.nonce, submissionDate |-> r.created,
     confirmations |-> SelectSeq(confirmations, LAMBDA c : c.multisig_transaction = r.id)]

\* Mutant of get_queryset: the rows are ordered by nonce alone.
SafeMultisigTransactionListView_get_queryset_nonce_only(address) ==
    order_by(MultisigOfSafe(address), <<"-nonce">>)

SafeMultisigTransactionListView_get_queryset(address) ==
    order_by(MultisigOfSafe(address), <<"-nonce", "-created">>)

SafeMultisigTransactionListView_ordering_fields == {"nonce", "created"}

\* ListAPIView.list for this view: filter backends, pagination, serialization.
SafeMultisigTransactionListView_list(address, q) ==
    LET qs == OrderingFilter(
                  MultisigTransactionFilter(SafeMultisigTransactionListView_get_queryset(address), q),
                  q, SafeMultisigTransactionListView_ordering_fields)
        page == paginate_queryset(qs, q)
    IN  get_paginated_response(qs, q,
                               [i \in DOMAIN page |-> SafeMultisigTransactionResponseSerializer(page[i])])

SafeMultisigTransactionListView_filtered(address, q) ==
    MultisigTransactionFilter(SafeMultisigTransactionListView_get_queryset(address), q)

\* Mutant of get: 404 is answered when the page is empty, not when the count is 0.
SafeMultisigTransactionListView_get_empty_page(address, q) ==
    /\ last' =
         IF ~isChecksumAddress(address)
         THEN Served("GET", "multisig-transactions", address, q,
                     Response(HTTP_422_UNPROCESSABLE_ENTITY, "Invalid ethereum address"), 0, 0, 0)
         ELSE LET response == SafeMultisigTransactionListView_list(address, q)
                  listed == ListQueries(SafeMultisigTransactionListView_filtered(address, q), q)
              IN  IF response.data.results = <<>>
                  THEN Served("GET", "multisig-transactions", address, q,
                              [response EXCEPT !.status = HTTP_404_NOT_FOUND], listed, 0, 0)
                  ELSE Served("GET", "multisig-transactions", address, q,
                              setdefault(
                                  [response EXCEPT !.data = @ @@
                                      ("count_unique_nonce" :> DistinctCount(MultisigOfSafe(address), "nonce"))],
                                  "ETag", WeakETag(response.data.results)),
                              listed + 1, 0, 0)
    /\ UNCHANGED store

SafeMultisigTransactionListView_get(address, q) ==
    /\ last' =
         IF ~isChecksumAddress(address)
         THEN Served("GET", "multisig-transactions", address, q,
                     Response(HTTP_422_UNPROCESSABLE_ENTITY, "Invalid ethereum address"), 0, 0, 0)
         ELSE LET response == SafeMultisigTransactionListView_list(address, q)
                  listed == ListQueries(SafeMultisigTransactionListView_filtered(address, q), q)
              IN  IF response.data.count = 0
                  THEN Served("GET", "multisig-transactions", address, q,
                              [response EXCEPT !.status = HTTP_404_NOT_FOUND], listed, 0, 0)
                  ELSE Served("GET", "multisig-transactions", address, q,
                              setdefault(
                                  [response EXCEPT !.data = @ @@
                                      ("count_unique_nonce" :> DistinctCount(MultisigOfSafe(address), "nonce"))],
                                  "ETag", WeakETag(response.data.results)),
                              listed + 1, 0, 0)
    /\ UNCHANGED store

\* SafeMultisigTransactionSerializer.is_valid: the signature is an owner's.
is_valid(data) == data.signature = "owner"
\* SafeMultisigTransactionSerializer.errors: per-field error detail.
errors(data) == [signature |-> <<"Signature does not match an owner of the safe">>]

\* SafeMultisigTransactionSerializer.save: the transaction and its confirmation.
save(data) ==
    LET id == Len(multisig) + 1
    IN  /\ multisig' = Append(multisig, [id |-> id, safe_tx_hash |-> id, safe |-> data.safe,
                                         nonce |-> data.nonce, created |-> id])
        /\ confirmations' = Append(confirmations, [multisig_transaction |-> id,
                                                   signature |-> data.signature])

\* Mutant of post: the address is not checked.
SafeMultisigTransactionListView_post_unchecked(address, body) ==
    LET data == [body EXCEPT !.safe = address]
    IN  IF ~is_valid(data)
        THEN /\ last' = Served("POST", "multisig-transactions", address, body,
                               Response(HTTP_422_UNPROCESSABLE_ENTITY, errors(data)), 0, 0, 0)
             /\ UNCHANGED store
        ELSE /\ save(data)
             /\ last' = Served("POST", "multisig-transactions", address, body,
                               Response(HTTP_202_ACCEPTED, None), 0, 0, 1)
             /\ UNCHANGED <<moduleTxs, internalTxs, tokenTransfers, safeContracts,
                            safeStatus, chain>>

\* Mutant of post: the submission is saved before it is validated.
SafeMultisigTransactionListView_post_save_first(address, body) ==
    IF ~isChecksumAddress(address)
    THEN /\ last' = Served("POST", "multisig-transactions", address, body,
                           Response(HTTP_422_UNPROCESSABLE_ENTITY, "Invalid ethereum address"), 0, 0, 0)
         /\ UNCHANGED store
    ELSE LET data == [body EXCEPT !.safe = address]
         IN  /\ save(data)
             /\ last' = IF ~is_valid(data)
                        THEN Served("POST", "multisig-transactions", address, body,
                                    Response(HTTP_422_UNPROCESSABLE_ENTITY, errors(data)), 0, 0, 0)
                        ELSE Served("POST", "multisig-transactions", address, body,
                                    Response(HTTP_202_ACCEPTED, None), 0, 0, 1)
             /\ UNCHANGED <<moduleTxs, internalTxs, tokenTransfers, safeContracts,
                            safeStatus, chain>>

\* Mutant of post: the body's `safe` is not replaced by the address of the URL.
SafeMultisigTransactionListView_post_body_safe(address, body) ==
    IF ~isChecksumAddress(address)
    THEN /\ last' = Served("POST", "multisig-transactions", address, body,
                           Response(HTTP_422_UNPROCESSABLE_ENTITY, "Invalid ethereum address"), 0, 0, 0)
         /\ UNCHANGED store
    ELSE IF ~is_valid(body)
         THEN /\ last' = Served("POST", "multisig-transactions", address, body,
                                Response(HTTP_422_UNPROCESSABLE_ENTITY, errors(body)), 0, 0, 0)
              /\ UNCHANGED store
         ELSE /\ save(body)
              /\ last' = Served("POST", "multisig-transactions", address, body,
                                Response(HTTP_202_ACCEPTED, None), 0, 0, 1)
              /\ UNCHANGED <<moduleTxs, internalTxs, tokenTransfers, safeContracts,
                             safeStatus, chain>>

SafeMultisigTransactionListView_post(address, body) ==
    IF ~isChecksumAddress(address)
    THEN /\ last' = Served("POST", "multisig-transactions", address, body,
                           Response(HTTP_422_UNPROCESSABLE_ENTITY, "Invalid ethereum address"), 0, 0, 0)
         /\ UNCHANGED store
    ELSE LET data == [body EXCEPT !.safe = address]
         IN  IF ~is_valid(data)
             THEN /\ last' = Served("POST", "multisig-transactions", address, body,
                                    Response(HTTP_422_UNPROCESSABLE_ENTITY, errors(data)), 0, 0, 0)
                  /\ UNCHANGED store
             ELSE /\ save(data)
                  /\ last' = Served("POST", "multisig-transactions", address, body,
                                    Response(HTTP_202_ACCEPTED, None), 0, 0, 1)
                  /\ UNCHANGED <<moduleTxs, internalTxs, tokenTransfers, safeContracts,
                                 safeStatus, chain>>

-----------------------------------------------------------------------------
\* SafeMultisigTransactionDetailView (RetrieveAPIView, lookup by safe_tx_hash)

SafeMultisigTransactionDetailView_get(tx_hash) ==
    /\ last' =
         LET found == SelectSeq(multisig, LAMBDA r : r.safe_tx_hash = tx_hash)
         IN  IF found = <<>>
             THEN Served("GET", "multisig-transaction", None, tx_hash,
                         Response(HTTP_404_NOT_FOUND, "Not found."), 1, 0, 0)
             ELSE Served("GET", "multisig-transaction", None, tx_hash,
                         Response(HTTP_200_OK, SafeMultisigTransactionResponseSerializer(found[1])),
                         1, 0, 0)
    /\ UNCHANGED store

-----------------------------------------------------------------------------
\* SafeModuleTransactionListView

SafeModuleTransactionResponseSerializer(r) ==
    [safe |-> r.safe, module |-> r.module, created |-> r.created]

SafeModuleTransactionListView_get_queryset(address) ==
    order_by(QuerySet(SelectSeq(moduleTxs, LAMBDA r : r.safe = address)), <<"-created">>)

SafeModuleTransactionListView_ordering_fields == {"created"}

\* ListAPIView.list for this view: DjangoFilterBackend has no filterset here.
SafeModuleTransactionListView_list(address, q) ==
    LET qs == OrderingFilter(SafeModuleTransactionListView_get_queryset(address), q,
                             SafeModuleTransactionListView_ordering_fields)
        page == paginate_queryset(qs, q)
    IN  get_paginated_response(qs, q,
                               [i \in DOMAIN page |-> SafeModuleTransactionResponseSerializer(page[i])])

SafeModuleTransactionListView_get(address, q) ==
    /\ last' =
         IF ~isChecksumAddress(address)
         THEN Served("GET", "module-transactions", address, q,
                     Response(HTTP_422_UNPROCESSABLE_ENTITY, "Invalid ethereum address"), 0, 0, 0)
         ELSE LET response == SafeModuleTransactionListView_list(address, q)
                  listed == ListQueries(SafeModuleTransactionListView_get_queryset(address), q)
              IN  IF response.data.count = 0
                  THEN Served("GET", "module-transactions", address, q,
                              [response EXCEPT !.status = HTTP_404_NOT_FOUND], listed, 0, 0)
                  ELSE Served("GET", "module-transactions", address, q,
                              setdefault(response, "ETag", WeakETag(response.data.results)),
                              listed, 0, 0)
    /\ UNCHANGED store

-----------------------------------------------------------------------------
\* SafeIncomingTxListView

\* InternalTx.objects.incoming_tokens: the token transfers received by the address.
incoming_tokens(address) == QuerySet(SelectSeq(tokenTransfers, LAMBDA r : r.to = address))

\* InternalTx.objects.incoming_txs: the traces that pay ether to the address.
incoming_txs(address) ==
    QuerySet([i \in DOMAIN SelectSeq(internalTxs, LAMBDA r : r.to = address /\ r.value > 0) |->
                LET r == SelectSeq(internalTxs, LAMBDA x : x.to = address /\ x.value > 0)[i]
                IN  [to |-> r.to, from |-> r.from, value |-> r.value,
                     token_address |-> None, ethereum_tx |-> r.ethereum_tx]])

\* InternalTx.objects.union_incoming_txs_with_tokens
union_incoming_txs_with_tokens(tokens_queryset, ether_queryset) ==
    QuerySet(tokens_queryset.rows \o ether_queryset.rows)

IncomingTransactionResponseSerializer(r) ==
    [to |-> r.to, from |-> r.from, value |-> ToString(r.value),
     tokenAddress |-> r.token_address, transactionHash |-> r.ethereum_tx]

SafeIncomingTxListView_get_queryset(address, q) ==
    LET tokens_queryset == IncomingTransactionFilter(incoming_tokens(address), q)
        ether_queryset == IncomingTransactionFilter(incoming_txs(address), q)
    IN  union_incoming_txs_with_tokens(tokens_queryset, ether_queryset)

\* ListAPIView.list for this view: filter_queryset is the identity.
SafeIncomingTxListView_list(address, q) ==
    LET qs == SafeIncomingTxListView_get_queryset(address, q)
        page == paginate_queryset(qs, q)
    IN  get_paginated_response(qs, q,
                               [i \in DOMAIN page |-> IncomingTransactionResponseSerializer(page[i])])

SafeIncomingTxListView_get(address, q) ==
    /\ last' =
         IF ~isChecksumAddress(address)
         THEN Served("GET", "incoming-transactions", address, q,
                     Response(HTTP_422_UNPROCESSABLE_ENTITY, "Invalid ethereum address"), 0, 0, 0)
         ELSE LET response == SafeIncomingTxListView_list(address, q)
                  listed == ListQueries(SafeIncomingTxListView_get_queryset(address, q), q)
              IN  IF response.data.count = 0
                  THEN Served("GET", "incoming-transactions", address, q,
                              [response EXCEPT !.status = HTTP_404_NOT_FOUND], listed, 0, 0)
                  ELSE Served("GET", "incoming-transactions", address, q,
                              setdefault(response, "ETag", WeakETag(response.data.results)),
                              listed, 0, 0)
    /\ UNCHANGED store

-----------------------------------------------------------------------------
\* SafeBalanceView and SafeBalanceUsdView

\* BalanceServiceProvider().get_balances: the ether balance the chain holds for the address.
get_balances(address) == <<[token_address |-> None, balance |-> chain[address]]>>

\* BalanceServiceProvider().get_usd_balances: the same, valued in USD.
get_usd_balances(address) ==
    <<[token_address |-> None, balance |-> chain[address], balance_usd |-> chain[address] * 2]>>

SafeBalanceResponseSerializer(r) ==
    [tokenAddress |-> r.token_address, balance |-> ToString(r.balance)]

SafeBalanceUsdResponseSerializer(r) ==
    [tokenAddress |-> r.token_address, balance |-> ToString(r.balance),
     balanceUsd |-> ToString(r.balance_usd)]

\* Mutant of SafeContractExists: the lookup never raises DoesNotExist.
SafeContractExists_always(address) == TRUE

\* SafeContract.objects.get(address=address) does not raise DoesNotExist.
SafeContractExists(address) == address \in safeContracts

\* Mutant of SafeBalanceView.get: get_or_create registers the address it looks up.
SafeBalanceView_get_or_create(address) ==
    IF ~isChecksumAddress(address)
    THEN /\ last' = Served("GET", "safe-balances", address, None,
                           Response(HTTP_422_UNPROCESSABLE_ENTITY, None), 0, 0, 0)
         /\ UNCHANGED store
    ELSE /\ last' = Served("GET", "safe-balances", address, None,
                           Response(HTTP_200_OK,
                                    LET safe_balances == get_balances(address)
                                    IN  [i \in DOMAIN safe_balances |->
                                            SafeBalanceResponseSerializer(safe_balances[i])]),
                           1, 1, 0)
         /\ safeContracts' = safeContracts \cup {address}
         /\ UNCHANGED <<multisig, confirmations, moduleTxs, internalTxs, tokenTransfers,
                        safeStatus, chain>>

SafeBalanceView_get(address) ==
    /\ last' =
         IF ~isChecksumAddress(address)
         THEN Served("GET", "safe-balances", address, None,
                     Response(HTTP_422_UNPROCESSABLE_ENTITY, None), 0, 0, 0)
         ELSE IF ~SafeContractExists(address)
         THEN Served("GET", "safe-balances", address, None,
                     Response(HTTP_404_NOT_FOUND, None), 1, 0, 0)
         ELSE Served("GET", "safe-balances", address, None,
                     Response(HTTP_200_OK,
                              LET safe_balances == get_balances(address)
                                    IN  [i \in DOMAIN safe_balances |->
                                            SafeBalanceResponseSerializer(safe_balances[i])]),
                     1, 1, 0)
    /\ UNCHANGED store

SafeBalanceUsdView_get(address) ==
    /\ last' =
         IF ~isChecksumAddress(address)
         THEN Served("GET", "safe-balances-usd", address, None,
                     Response(HTTP_422_UNPROCESSABLE_ENTITY, None), 0, 0, 0)
         ELSE IF ~SafeContractExists(address)
         THEN Served("GET", "safe-balances-usd", address, None,
                     Response(HTTP_404_NOT_FOUND, None), 1, 0, 0)
         ELSE Served("GET", "safe-balances-usd", address, None,
                     Response(HTTP_200_OK,
                              LET safe_balances == get_usd_balances(address)
                              IN  [i \in DOMAIN safe_balances |->
                                      SafeBalanceUsdResponseSerializer(safe_balances[i])]),
                     1, 1, 0)
    /\ UNCHANGED store

-----------------------------------------------------------------------------
\* SafeCreationView

\* InternalTx.objects.select_related('ethereum_tx__block').filter(contract_address=address)
CreationTraces(address) == SelectSeq(internalTxs, LAMBDA r : r.contract_address = <<address>>)

\* InternalTx.get_previous_trace: the trace before this one in the same
\* transaction, or None when this is the transaction's first trace.
get_previous_trace(itx) ==
    LET before == SelectSeq(internalTxs, LAMBDA r : /\ r.ethereum_tx = itx.ethereum_tx
                                                     /\ r.trace = itx.trace - 1)
    IN  IF before = <<>> THEN None ELSE <<before[1]>>

SafeCreationInfoResponseSerializer(data) ==
    [creator |-> data.creator, created |-> ToString(data.created),
     transactionHash |-> data.transaction_hash]

\* Mutant of SafeCreationView.get: the creator is always the creation trace's sender.
SafeCreationView_get_own_sender(address) ==
    /\ last' =
         IF ~isChecksumAddress(address)
         THEN Served("GET", "safe-creation", address, None,
                     Response(HTTP_422_UNPROCESSABLE_ENTITY, None), 0, 0, 0)
         ELSE IF CreationTraces(address) = <<>>
         THEN Served("GET", "safe-creation", address, None,
                     Response(HTTP_404_NOT_FOUND, None), 1, 0, 0)
         ELSE LET creation_internal_tx == CreationTraces(address)[1]
              IN  Served("GET", "safe-creation", address, None,
                         Response(HTTP_200_OK,
                                  SafeCreationInfoResponseSerializer(
                                      [creator |-> creation_internal_tx.from,
                                       created |-> creation_internal_tx.block_timestamp,
                                       transaction_hash |-> creation_internal_tx.ethereum_tx])),
                         2, 0, 0)
    /\ UNCHANGED store

SafeCreationView_get(address) ==
    /\ last' =
         IF ~isChecksumAddress(address)
         THEN Served("GET", "safe-creation", address, None,
                     Response(HTTP_422_UNPROCESSABLE_ENTITY, None), 0, 0, 0)
         ELSE IF CreationTraces(address) = <<>>
         THEN Served("GET", "safe-creation", address, None,
                     Response(HTTP_404_NOT_FOUND, None), 1, 0, 0)
         ELSE LET creation_internal_tx == CreationTraces(address)[1]
                  previous_internal_tx == get_previous_trace(creation_internal_tx)
                  creator == IF previous_internal_tx # None THEN previous_internal_tx[1].from
                             ELSE creation_internal_tx.from
                  created == creation_internal_tx.block_timestamp
              IN  Served("GET", "safe-creation", address, None,
                         Response(HTTP_200_OK,
                                  SafeCreationInfoResponseSerializer(
                                      [creator |-> creator, created |-> created,
                                       transaction_hash |-> creation_internal_tx.ethereum_tx])),
                         2, 0, 0)
    /\ UNCHANGED store

-----------------------------------------------------------------------------
\* OwnersView

\* SafeStatus.objects.addresses_for_owner: the safes the address is an owner of.
addresses_for_owner(address) == {p[1] : p \in {x \in safeStatus : x[2] = address}}

OwnerResponseSerializer(data) == [safes |-> data.safes]

OwnersView_get(address) ==
    /\ last' =
         IF ~isChecksumAddress(address)
         THEN Served("GET", "owners", address, None,
                     Response(HTTP_422_UNPROCESSABLE_ENTITY, None), 0, 0, 0)
         ELSE LET safes_for_owner == addresses_for_owner(address)
              IN  IF safes_for_owner = {}
                  THEN Served("GET", "owners", address, None,
                              Response(HTTP_404_NOT_FOUND, None), 1, 0, 0)
                  ELSE Served("GET", "owners", address, None,
                              Response(HTTP_200_OK, OwnerResponseSerializer([safes |-> safes_for_owner])),
                              1, 0, 0)
    /\ UNCHANGED store

-----------------------------------------------------------------------------
\* AboutView

AboutView_get ==
    /\ last' = Served("GET", "about", None, None,
                      Response(HTTP_200_OK, [name |-> "Safe Transaction Service"]), 0, 0, 0)
    /\ UNCHANGED store

-----------------------------------------------------------------------------
\* What the indexer has materialised before the API is served: an initial
\* state is drawn by the set of addresses the indexer has seen (their safe
\* contract, owners, module transactions, traces and token transfers).

A1 == <<"a1", "eip55">>
B2 == <<"b2", "eip55">>
Factory == <<"f0", "eip55">>
Deployer == <<"e9", "eip55">>

IndexedModuleTxs(a) ==
    IF a = A1
    THEN <<[safe |-> a, module |-> "m1", created |-> 1], [safe |-> a, module |-> "m2", created |-> 2]>>
    ELSE <<[safe |-> a, module |-> "m1", created |-> 3]>>

\* A1 is created by a factory called by the deployer and later receives ether;
\* B2 is created directly by the deployer.  A contract address has one creation trace.
IndexedInternalTxs(a) ==
    IF a = A1
    THEN <<[ethereum_tx |-> "0xt1", trace |-> 0, from |-> Deployer, to |-> Factory, value |-> 0,
            contract_address |-> None, block_timestamp |-> 10],
           [ethereum_tx |-> "0xt1", trace |-> 1, from |-> Factory, to |-> None, value |-> 0,
            contract_address |-> <<a>>, block_timestamp |-> 10],
           [ethereum_tx |-> "0xt2", trace |-> 0, from |-> Deployer, to |-> a, value |-> 3,
            contract_address |-> None, block_timestamp |-> 11]>>
    ELSE <<[ethereum_tx |-> "0xt3", trace |-> 0, from |-> Deployer, to |-> None, value |-> 0,
            contract_address |-> <<a>>, block_timestamp |-> 12]>>

IndexedTokenTransfers(a) ==
    IF a = A1
    THEN <<[to |-> a, from |-> Deployer, value |-> 7, token_address |-> <<"T2">>,
            ethereum_tx |-> "0xt4"]>>
    ELSE <<[to |-> a, from |-> Deployer, value |-> 1, token_address |-> <<"T1">>,
            ethereum_tx |-> "0xt5"],
           [to |-> a, from |-> A1, value |-> 2, token_address |-> <<"T2">>,
            ethereum_tx |-> "0xt6"]>>

\* The rows of a table for the addresses the indexer has seen, A1's first.
ModuleTxsOf(traced) ==
    (IF A1 \in traced THEN IndexedModuleTxs(A1) ELSE <<>>)
        \o (IF B2 \in traced THEN IndexedModuleTxs(B2) ELSE <<>>)
InternalTxsOf(traced) ==
    (IF A1 \in traced THEN IndexedInternalTxs(A1) ELSE <<>>)
        \o (IF B2 \in traced THEN IndexedInternalTxs(B2) ELSE <<>>)
TokenTransfersOf(traced) ==
    (IF A1 \in traced THEN IndexedTokenTransfers(A1) ELSE <<>>)
        \o (IF B2 \in traced THEN IndexedTokenTransfers(B2) ELSE <<>>)

OtherAddress(a) == IF a = A1 THEN B2 ELSE A1

NoRequest == Served("NONE", "none", None, None, Response(0, None), 0, 0, 0)
NoList == [set |-> FALSE, results |-> <<>>, etag |-> ""]

Init ==
    /\ multisig = <<>>
    /\ confirmations = <<>>
    /\ \E traced \in SUBSET ChecksumAddresses :
          /\ safeContracts = traced
          /\ safeStatus = {<<s, OtherAddress(s)>> : s \in traced}
          /\ moduleTxs = ModuleTxsOf(traced)
          /\ internalTxs = InternalTxsOf(traced)
          /\ tokenTransfers = TokenTransfersOf(traced)
    /\ chain = [a \in ChecksumAddresses |-> IF a = A1 THEN 5 ELSE 0]
    /\ last = NoRequest
    /\ prevList = NoList

-----------------------------------------------------------------------------
\* The requests a client may send.

Offsets == {0, 1}
Limits == {1, MaxTxs}
OrderingParams == {<<>>, <<"nonce">>, <<"bogus">>}

MultisigQueries ==
    [nonce : {None} \cup {<<n>> : n \in Nonces}, ordering : OrderingParams,
     offset : Offsets, limit : Limits]
ModuleQueries == [ordering : {<<>>, <<"created">>}, offset : Offsets, limit : Limits]
IncomingQueries == [token_address : {None, <<"T1">>}, offset : Offsets, limit : Limits]
Bodies == [safe : ChecksumAddresses, nonce : Nonces, signature : {"owner", "stranger"}]

GetTransactions ==
    /\ \E address \in Addresses, q \in MultisigQueries :
          SafeMultisigTransactionListView_get(address, q)
    /\ UNCHANGED prevList

\* The table is capped at MaxTxs rows: a submission that would be saved is not
\* sent once the cap is reached.
PostTransaction ==
    /\ \E address \in Addresses, body \in Bodies :
          /\ Len(multisig) < MaxTxs \/ ~isChecksumAddress(address) \/ ~is_valid(body)
          /\ SafeMultisigTransactionListView_post(address, body)
    /\ UNCHANGED prevList

GetTransaction ==
    /\ \E tx_hash \in 1..MaxTxs : SafeMultisigTransactionDetailView_get(tx_hash)
    /\ UNCHANGED prevList

GetModuleTransactions ==
    /\ \E address \in Addresses, q \in ModuleQueries :
          SafeModuleTransactionListView_get(address, q)
    /\ UNCHANGED prevList

GetIncomingTransactions ==
    /\ \E address \in Addresses, q \in IncomingQueries :
          SafeIncomingTxListView_get(address, q)
    /\ UNCHANGED prevList

GetBalances == (\E address \in Addresses : SafeBalanceView_get(address)) /\ UNCHANGED prevList

GetBalancesUsd == (\E address \in Addresses : SafeBalanceUsdView_get(address)) /\ UNCHANGED prevList

GetCreation == (\E address \in Addresses : SafeCreationView_get(address)) /\ UNCHANGED prevList

GetOwners == (\E address \in Addresses : OwnersView_get(address)) /\ UNCHANGED prevList

GetAbout == AboutView_get /\ UNCHANGED prevList

\* urlpatterns: the routes of the API.
Next ==
    \/ GetAbout
    \/ GetTransactions
    \/ PostTransaction
    \/ GetIncomingTransactions
    \/ GetModuleTransactions
    \/ GetCreation
    \/ GetBalances
    \/ GetBalancesUsd
    \/ GetTransaction
    \/ GetOwners

Spec == Init /\ [][Next]_vars

-----------------------------------------------------------------------------
\* The list endpoints alone, remembering the successful list response that
\* `last` replaces, so that two responses served from different store states
\* can be compared.

ListViews == {"multisig-transactions", "module-transactions", "incoming-transactions"}

\* A list response that was served with 200.
ListOk(served) ==
    served.method = "GET" /\ served.view \in ListViews /\ served.response.status = HTTP_200_OK

Remember ==
    prevList' = IF ListOk(last)
                THEN [set |-> TRUE, results |-> last.response.data.results,
                      etag |-> last.response.headers["ETag"]]
                ELSE prevList

ETagQueries == {q \in MultisigQueries : q.ordering # <<"bogus">>}

ListTransactions ==
    /\ \E address \in ChecksumAddresses, q \in ETagQueries :
          SafeMultisigTransactionListView_get(address, q)
    /\ Remember

ListModuleTransactions ==
    /\ \E address \in ChecksumAddresses, q \in ModuleQueries :
          SafeModuleTransactionListView_get(address, q)
    /\ Remember

ListIncomingTransactions ==
    /\ \E address \in ChecksumAddresses, q \in IncomingQueries :
          SafeIncomingTxListView_get(address, q)
    /\ Remember

Submit ==
    /\ Len(multisig) < MaxTxs
    /\ \E address \in ChecksumAddresses, body \in {b \in Bodies : is_valid(b) /\ b.safe = A1} :
          SafeMultisigTransactionListView_post(address, body)
    /\ Remember

InitETag ==
    /\ multisig = <<>>
    /\ confirmations = <<>>
    /\ safeContracts = {A1}
    /\ safeStatus = {<<A1, B2>>}
    /\ moduleTxs = ModuleTxsOf({A1})
    /\ internalTxs = InternalTxsOf({A1})
    /\ tokenTransfers = TokenTransfersOf({A1})
    /\ chain = [a \in ChecksumAddresses |-> IF a = A1 THEN 5 ELSE 0]
    /\ last = NoRequest
    /\ prevList = NoList

NextETag ==
    \/ ListTransactions
    \/ ListModuleTransactions
    \/ ListIncomingTransactions
    \/ Submit

SpecETag == InitETag /\ [][NextETag]_vars

-----------------------------------------------------------------------------
\* Properties.

AddressViews == {"multisig-transactions", "incoming-transactions", "module-transactions",
                 "safe-creation", "safe-balances", "safe-balances-usd", "owners"}

\* The request in `served` is a GET of `view` with a checksummed address.
ValidGet(served, view) ==
    served.method = "GET" /\ served.view = view /\ isChecksumAddress(served.address)

\* Rows the list request in `served` selects, counted on the tables themselves.
Matching(served) ==
    IF served.view = "multisig-transactions"
    THEN Cardinality({i \in DOMAIN multisig :
                        /\ multisig[i].safe = served.address
                        /\ served.query.nonce \in {None, <<multisig[i].nonce>>}})
    ELSE IF served.view = "module-transactions"
    THEN Cardinality({i \in DOMAIN moduleTxs : moduleTxs[i].safe = served.address})
    ELSE Cardinality({i \in DOMAIN tokenTransfers :
                        /\ tokenTransfers[i].to = served.address
                        /\ served.query.token_address \in {None, tokenTransfers[i].token_address}})
         + Cardinality({i \in DOMAIN internalTxs :
                          /\ internalTxs[i].to = served.address
                          /\ internalTxs[i].value > 0
                          /\ served.query.token_address = None})

\* C1: a request to an address-parameterized endpoint whose address fails the
\* EIP-55 check is answered 422, issues no store query, no balance-service call
\* and no save, and leaves every table as it was.
C1_InvalidAddress422 ==
    [][(last'.view \in AddressViews /\ ~isChecksumAddress(last'.address))
         => /\ last'.response.status = HTTP_422_UNPROCESSABLE_ENTITY
            /\ last'.queries = 0
            /\ last'.balance_calls = 0
            /\ last'.saves = 0
            /\ store' = store]_vars

\* C1 witness: an otherwise valid submission to a lower-case address, refused
\* while the table already holds rows.
C1_Witness ==
    /\ last.method = "POST"
    /\ ~isChecksumAddress(last.address)
    /\ is_valid(last.query)
    /\ last.response.status = HTTP_422_UNPROCESSABLE_ENTITY
    /\ multisig # <<>>

\* C2: for a checksummed address a list endpoint answers 404 exactly when the
\* (filtered) query matches no row and 200 exactly when it matches at least one;
\* it never answers 200 for a query matching no row.
C2_EmptyListIs404 ==
    (last.method = "GET" /\ last.view \in ListViews /\ isChecksumAddress(last.address))
        => /\ last.response.status \in {HTTP_200_OK, HTTP_404_NOT_FOUND}
           /\ last.response.status = HTTP_404_NOT_FOUND <=> Matching(last) = 0
           /\ last.response.status = HTTP_200_OK <=> Matching(last) >= 1
           /\ last.response.data.count = Matching(last)

\* C2 witness: the safe has transactions, the nonce filter selects none of them, 404.
C2_Witness ==
    /\ ValidGet(last, "multisig-transactions")
    /\ last.query.nonce # None
    /\ MultisigOfSafe(last.address).rows # <<>>
    /\ last.response.status = HTTP_404_NOT_FOUND

\* Distinct nonces among the rows the request's filters select.
MatchingNonces(served) ==
    {multisig[i].nonce : i \in {j \in DOMAIN multisig :
                                  /\ multisig[j].safe = served.address
                                  /\ served.query.nonce \in {None, <<multisig[j].nonce>>}}}

\* Distinct nonces among all the transactions of the safe.
SafeNonces(address) == {multisig[i].nonce : i \in {j \in DOMAIN multisig : multisig[j].safe = address}}

\* C3 as stated: a successful GET of a safe's transactions reports `count` = the
\* number of rows the filters select and `count_unique_nonce` = the number of
\* distinct nonces among those rows.
C3_Original ==
    (ValidGet(last, "multisig-transactions") /\ last.response.status = HTTP_200_OK)
        => /\ last.response.data.count = Matching(last)
           /\ last.response.data.count_unique_nonce = Cardinality(MatchingNonces(last))

\* C3 amended: `count` is the number of rows the filters select, for every
\* filter, ordering and page; `count_unique_nonce` is the number of distinct
\* nonces among all the multisig transactions of the safe, whatever the filters.
C3_CountAndUniqueNonce ==
    (ValidGet(last, "multisig-transactions") /\ last.response.status = HTTP_200_OK)
        => /\ last.response.data.count = Matching(last)
           /\ last.response.data.count >= 1
           /\ last.response.data.count_unique_nonce = Cardinality(SafeNonces(last.address))

\* C3 witness: a nonce filter selects one row of a safe whose rows span two nonces.
C3_Witness ==
    /\ ValidGet(last, "multisig-transactions")
    /\ last.response.status = HTTP_200_OK
    /\ last.query.nonce # None
    /\ last.response.data.count = 1
    /\ last.response.data.count_unique_nonce = 2

\* C4: two successful list responses, served from any two store states and for
\* any pages, carry the same ETag exactly when their `results` lists are the same.
C4_ETagFollowsResults ==
    (ListOk(last) /\ prevList.set)
        => (last.response.headers["ETag"] = prevList.etag
              <=> last.response.data.results = prevList.results)

\* C4 witness: a submission was accepted between two successful lists of the
\* same safe, and the second list's results differ from the first's.
C4_Witness ==
    /\ ListOk(last)
    /\ prevList.set
    /\ last.view = "multisig-transactions"
    /\ Len(multisig) = MaxTxs
    /\ Len(prevList.results) = Len(last.response.data.results)
    /\ last.response.data.results # prevList.results
    /\ last.response.headers["ETag"] # prevList.etag

\* C5: a submission to a checksummed address whose payload fails validation is
\* answered 422 with the serializer's per-field errors, is never saved, and
\* leaves the transactions and the confirmations as they were.
C5_InvalidPayload422 ==
    [][(/\ last'.method = "POST"
        /\ isChecksumAddress(last'.address)
        /\ last'.query.signature # "owner")
         => /\ last'.response.status = HTTP_422_UNPROCESSABLE_ENTITY
            /\ DOMAIN last'.response.data = {"signature"}
            /\ last'.saves = 0
            /\ multisig' = multisig
            /\ confirmations' = confirmations]_vars

\* C5 witness: a stranger's signature refused while the table holds rows.
C5_Witness ==
    /\ last.method = "POST"
    /\ isChecksumAddress(last.address)
    /\ last.query.signature = "stranger"
    /\ last.response.status = HTTP_422_UNPROCESSABLE_ENTITY
    /\ multisig # <<>>

\* C6: for a checksummed address that is no registered SafeContract both
\* balance endpoints answer 404 without calling the balance service, whatever
\* balance the chain holds for it; for a registered one they answer 200 with
\* the balances the service returns.
C6_BalancesOfRegisteredOnly ==
    \A view \in {"safe-balances", "safe-balances-usd"} :
        ValidGet(last, view)
            => IF last.address \in safeContracts
               THEN /\ last.response.status = HTTP_200_OK
                    /\ last.balance_calls = 1
                    /\ Len(last.response.data) = 1
                    /\ last.response.data[1].balance = ToString(chain[last.address])
               ELSE /\ last.response.status = HTTP_404_NOT_FOUND
                    /\ last.balance_calls = 0

\* C6 witness: the chain holds a balance for an address that is not registered; 404.
C6_Witness ==
    /\ ValidGet(last, "safe-balances-usd")
    /\ last.address \notin safeContracts
    /\ chain[last.address] > 0
    /\ last.response.status = HTTP_404_NOT_FOUND

\* Neighbouring results are newest-nonce-first, then newest-created-first.
NonceThenCreatedDesc(results) ==
    \A i \in 1..(Len(results) - 1) :
        \/ results[i].nonce > results[i + 1].nonce
        \/ /\ results[i].nonce = results[i + 1].nonce
           /\ results[i].submissionDate >= results[i + 1].submissionDate

\* C7 as stated: the results of every successful GET of a safe's transactions
\* are ordered newest-nonce-first then newest-created-first, also when the
\* request carries an `ordering` parameter.
C7_Original ==
    (ValidGet(last, "multisig-transactions") /\ last.response.status = HTTP_200_OK)
        => NonceThenCreatedDesc(last.response.data.results)

\* C7 amended: the results are ordered newest-nonce-first then
\* newest-created-first for every request whose `ordering` parameter is absent
\* or names neither `nonce` nor `created`.
C7_DefaultOrdering ==
    (/\ ValidGet(last, "multisig-transactions")
     /\ last.response.status = HTTP_200_OK
     /\ \A i \in DOMAIN last.query.ordering :
           last.query.ordering[i] \notin {"nonce", "-nonce", "created", "-created"})
        => NonceThenCreatedDesc(last.response.data.results)

\* C7 witness: a page of two results of equal nonce, served under an `ordering`
\* parameter that names no orderable field.
C7_Witness ==
    /\ ValidGet(last, "multisig-transactions")
    /\ last.response.status = HTTP_200_OK
    /\ last.query.ordering = <<"bogus">>
    /\ Len(last.response.data.results) = 2
    /\ last.response.data.results[1].nonce = last.response.data.results[2].nonce
    /\ last.response.data.results[1].submissionDate > last.response.data.results[2].submissionDate

\* C8: a submission to a checksummed address whose payload passes validation is
\* answered 202 and saved once: one row is added, its safe is the address of
\* the URL whatever `safe` the body named; from then on an unfiltered GET of
\* that safe's transactions answers 200.
C8_AcceptedSubmission ==
    /\ [][(/\ last'.method = "POST"
           /\ isChecksumAddress(last'.address)
           /\ last'.query.signature = "owner")
            => /\ last'.response.status = HTTP_202_ACCEPTED
               /\ last'.saves = 1
               /\ Len(multisig') = Len(multisig) + 1
               /\ SubSeq(multisig', 1, Len(multisig)) = multisig
               /\ multisig'[Len(multisig')].safe = last'.address
               /\ multisig'[Len(multisig')].nonce = last'.query.nonce]_vars
    /\ [](\A i \in DOMAIN multisig :
            (ValidGet(last, "multisig-transactions") /\ last.address = multisig[i].safe
               /\ last.query.nonce = None)
                => last.response.status = HTTP_200_OK)

\* C8 witness: an accepted submission whose body named another safe than the URL.
C8_Witness ==
    /\ last.method = "POST"
    /\ last.response.status = HTTP_202_ACCEPTED
    /\ last.query.safe # last.address
    /\ multisig[Len(multisig)].safe = last.address

\* The creation traces of an address, and the trace before a trace.
CreationsOf(address) == {r \in Range(internalTxs) : r.contract_address = <<address>>}
TracesBefore(c) == {r \in Range(internalTxs) : r.ethereum_tx = c.ethereum_tx /\ r.trace = c.trace - 1}

C10_GetIsReadOnly ==
    [][last'.method = "GET"
         => /\ store' = store
            /\ (/\ last.method = "GET"
                /\ last'.view = last.view
                /\ last'.address = last.address
                /\ last'.query = last.query) => last'.response = last.response]_vars

\* C10 witness: a transaction read back by its hash once the table is full.
C10_Witness ==
    /\ last.method = "GET"
    /\ last.view = "multisig-transaction"
    /\ last.response.status = HTTP_200_OK
    /\ Len(multisig) = MaxTxs

====
